---- MODULE Spec2Model ----
(***************************************************************************)
(* Dyslexic-Overlay: the Electron main process (overlay state, persistence, *)
(* overlay window and its geometry, global hotkeys) and the overlay page's  *)
(* painting of the snapshots it receives, as a state machine.               *)
(*                                                                          *)
(* Number encoding.  readingGuidePosition and readingGuideStepSize are      *)
(* percentages that move in steps of 0.5; they are counted here in units of *)
(* 0.5 %, so the source's 0.5 is 1, its 50 is 100 and its 100 is 200.       *)
(* opacity is counted in hundredths (0.3 is 30).  Pixel values are integers.*)
(*                                                                          *)
(* A message payload `data` is a record whose DOMAIN is the set of fields   *)
(* that carry a value other than undefined: the handler only ever compares  *)
(* a field with undefined or tests its truthiness, so a field sent as       *)
(* undefined and a field left out are the same input.                       *)
(***************************************************************************)
EXTENDS Integers, Sequences, FiniteSets, TLC

VARIABLES
    currentOverlayState,  \* part_000:30   the in-memory OverlayState record
    store,                \* part_000:6    the record persisted under 'overlayState'
    phase,                \* "loaded" | "running" | "exited"
    mainWindow,           \* part_000:26   "none" | "open" | "closed"
    overlayWindow,        \* part_000:27   "none" | "open" | "destroyed"
    visible,              \* overlayWindow.isVisible()
    fullScreen,           \* overlay window's native full-screen flag
    bounds,               \* overlay window's bounds: <<>> until set, then <<rect>>
    hotkeys,              \* the set of global shortcuts currently registered
    surface,              \* Overlay Surface: <<>> or <<last snapshot received>>
    painted,              \* Overlay Surface: the style it has painted
    workArea,             \* screen.getPrimaryDisplay().workAreaSize
    isMac,                \* part_000:33   process.platform === 'darwin'
    mainPage,             \* control window's page: "none" | "loading" | "loaded"
    loadPushes,           \* load-saved-state messages sent in this process run
    loadPushed,           \* <<>> or <<the state the last of them carried>>
    ui,                   \* Control Surface: <<>> or <<its React state>>
    toMain,               \* update-overlay messages in flight to the main process
    toUI,                 \* overlay-toggled messages in flight to the Control Surface
    listeners,            \* preload.js: ipcRenderer's listeners, channel by channel
    bridgeLog,            \* the page's calls of on/removeListener and the messages since
    op,                   \* name of the handler that ran last
    opLog,                \* the effects of that handler, in program order
    nudges,               \* number of effective nudges so far (bounded by MaxNudges)
    toggleRun             \* consecutive toggles just made, counted from a hidden window

stateVars  == <<currentOverlayState, store>>
windowVars == <<mainWindow, overlayWindow, visible, fullScreen, bounds, surface, painted>>
traceVars  == <<op, opLog, nudges, toggleRun>>
bridgeVars == <<listeners, bridgeLog>>
controlVars == <<isMac, mainPage, loadPushes, loadPushed, ui, toMain, toUI, bridgeVars>>
vars == <<currentOverlayState, store, phase, mainWindow, overlayWindow, visible,
          fullScreen, bounds, hotkeys, surface, painted, workArea, op, opLog,
          nudges, toggleRun, isMac, mainPage, loadPushes, loadPushed, ui, toMain,
          toUI, listeners, bridgeLog>>

----------------------------------------------------------------------------
(* Bounds of the exploration *)

\* At most this many effective nudges are explored in one run: with the
\* default step of 0.5 % the guide could otherwise visit 200 positions.
MaxNudges == 2

\* toggleRun saturates here: runs of more than two toggles are not told apart.
MaxToggleRun == 2

\* load-saved-state pushes counted per process run
MaxLoadPushes == 2

\* Messages in flight in one direction between the Control Surface and the
\* main process
MaxInFlight == 2

\* Calls of the preload bridge's on/removeListener and messages delivered,
\* counted per load of the page
MaxBridgeLog == 4

----------------------------------------------------------------------------
(* Program constants *)

PosMin == 0          \* Math.max(0, ...)                  part_000:255
PosMax == 200        \* Math.min(100, ...) in 0.5 % units part_000:270
DefaultStep == 1     \* readingGuideStepSize || 0.5       part_000:254
DefaultCustomWidth == 800    \* customWidth || 800        part_000:238
DefaultCustomHeight == 600   \* customHeight || 600       part_000:239
DefaultBorderWidth == 3      \* readingGuideBorderWidth || 3 part_000:161

Fields == {"color", "opacity", "isActive", "size", "customWidth", "customHeight",
           "readingGuideEnabled", "readingGuideHeight", "readingGuidePosition",
           "readingGuideStepSize", "readingGuideBorderWidth",
           "readingGuideBorderColor", "readingGuideBorderStyle"}

\* The defaults electron-store is constructed with.
Defaults ==
    [color |-> "#ffeb99", opacity |-> 30, isActive |-> FALSE, size |-> "fullscreen",
     customWidth |-> 800, customHeight |-> 600, readingGuideEnabled |-> FALSE,
     readingGuideHeight |-> 100, readingGuidePosition |-> 100,
     readingGuideStepSize |-> 1, readingGuideBorderWidth |-> 3,
     readingGuideBorderColor |-> "rgba(0,0,0,0.9)",
     readingGuideBorderStyle |-> "double"]

\* The work areas explored: 1920 x 1080, one with an odd width and an odd
\* height, and one whose width is a multiple of ten.
WorkAreas == {[width |-> 1920, height |-> 1080],
              [width |-> 1365, height |-> 875],
              [width |-> 1440, height |-> 900]}

DefaultWorkArea == [width |-> 1920, height |-> 1080]

Shortcuts == {"toggle", "up", "down"}

\* const validChannels = ['overlay-toggled', 'load-saved-state']
ValidChannels == {"overlay-toggled", "load-saved-state"}
\* The channels explored: the two above and one the bridge does not allow.
Channels == ValidChannels \cup {"update-overlay"}
\* A page that has just loaded: no listener on any channel.
NoListeners == [c \in Channels |-> <<>>]

----------------------------------------------------------------------------
(* JavaScript helpers *)

Max(a, b) == IF a >= b THEN a ELSE b
Min(a, b) == IF a <= b THEN a ELSE b

\* data.f !== undefined
Has(data, f) == f \in DOMAIN data

\* Truthiness of a string field (data.size): present and not the empty string.
TruthyStr(data, f) == Has(data, f) /\ data[f] # ""

\* An optional numeric argument passed on to a callee; undefined is passed as 0,
\* which the callee (x || default) treats exactly as undefined.
NumArg(data, f) == IF Has(data, f) THEN data[f] ELSE 0

\* x || d  for a number
OrDefault(x, d) == IF x = 0 THEN d ELSE x

\* Math.floor(a / b) for b > 0
FloorDiv(a, b) == a \div b

\* One entry of opLog: the effect, the in-memory state before and after it,
\* the boolean it carried (overlay-toggled, setFullScreen) and the arguments
\* of a call on the window (applyOverlaySize, setBounds).
Event(e, before, st, flag, arg) ==
    [ev |-> e, before |-> before, st |-> st, flag |-> flag, arg |-> arg]

\* The largest power of two that is at most n, for n >= 1.
RECURSIVE Pow2Below(_)
Pow2Below(n) == IF n < 2 THEN 1 ELSE 2 * Pow2Below(n \div 2)

\* Math.floor(n * 0.7) in IEEE-754 double arithmetic, for an integer n >= 0.
\* The double nearest 0.7 is 0.7 - 0.4 * 2^-53, so the exact product lies just
\* below 7n/10.  That only matters when 7n/10 is an integer N: the product
\* then rounds back to N unless N > 1.75 * 2^e, 2^e being the power of two
\* at or below N, in which case it rounds to the double below N and the floor
\* is N - 1 (Math.floor(1440 * 0.7) is 1007).
FloorTimes07(n) ==
    LET N == (7 * n) \div 10
    IN  IF n % 10 = 0 /\ N > 0 /\ 4 * N > 7 * Pow2Below(N) THEN N - 1 ELSE N

----------------------------------------------------------------------------
(* The settings store: electron-store keeps the record as JSON text *)

BoolFields == {"isActive", "readingGuideEnabled"}
StrFields  == {"color", "size", "readingGuideBorderColor", "readingGuideBorderStyle"}

\* JSON.stringify of one field's value: true / false, a quoted string (<<s>>)
\* or a number.
JsonValue(f, v) ==
    IF f \in BoolFields THEN (IF v THEN "true" ELSE "false")
    ELSE IF f \in StrFields THEN <<v>>
    ELSE v

\* JSON.stringify of the record: the fields that are defined, each as JSON.
Serialize(st) == [f \in DOMAIN st |-> JsonValue(f, st[f])]

\* Mutant: a boolean is read back by the truthiness of its text.
ParseValueByTruthiness(f, t) ==
    IF f \in BoolFields THEN t # ""
    ELSE IF f \in StrFields THEN t[1]
    ELSE t

\* JSON.parse of one field's value.
ParseValue(f, t) ==
    IF f \in BoolFields THEN t = "true"
    ELSE IF f \in StrFields THEN t[1]
    ELSE t

\* JSON.parse of the stored text: what store.get('overlayState') returns.
Parse(text) == [f \in DOMAIN text |-> ParseValue(f, text[f])]

\* Mutant: will-quit releases nothing.
UnregisterNone(keys) == keys

\* globalShortcut.unregisterAll()
UnregisterAll(keys) == {}

----------------------------------------------------------------------------
(* Window Geometry Resolver *)

Rect(x, y, w, h) == [x |-> x, y |-> y, width |-> w, height |-> h]

\* A call on the overlay window made by applyOverlaySize.
SetFullScreen(b) == [k |-> "setFullScreen", arg |-> <<>>, flag |-> b]
SetBounds(r)     == [k |-> "setBounds", arg |-> r, flag |-> FALSE]

\* Mutant: the bounds are set without leaving full-screen first.
BoundedKeepsFullScreen(r) == <<SetBounds(r)>>

\* overlayWindow.setFullScreen(false); overlayWindow.setBounds(r)
Bounded(r) == <<SetFullScreen(FALSE), SetBounds(r)>>

\* applyOverlaySize: the calls it makes on the overlay window, in order.  A
\* size that no case matches makes none.
ResolverCalls(size, customWidth, customHeight) ==
    LET width  == workArea.width
        height == workArea.height
        centerWidth  == FloorTimes07(width)
        centerHeight == FloorTimes07(height)
        w == Min(OrDefault(customWidth, DefaultCustomWidth), width)
        h == Min(OrDefault(customHeight, DefaultCustomHeight), height)
    IN  CASE size = "fullscreen"  -> <<SetFullScreen(TRUE)>>
          [] size = "top-half"    -> Bounded(Rect(0, 0, width, FloorDiv(height, 2)))
          [] size = "bottom-half" ->
                 Bounded(Rect(0, FloorDiv(height, 2), width, FloorDiv(height, 2)))
          [] size = "left-half"   -> Bounded(Rect(0, 0, FloorDiv(width, 2), height))
          [] size = "right-half"  ->
                 Bounded(Rect(FloorDiv(width, 2), 0, FloorDiv(width, 2), height))
          [] size = "center"      ->
                 Bounded(Rect(FloorDiv(width - centerWidth, 2),
                              FloorDiv(height - centerHeight, 2),
                              centerWidth, centerHeight))
          [] size = "custom"      ->
                 Bounded(Rect(FloorDiv(width - w, 2), FloorDiv(height - h, 2), w, h))
          [] OTHER                -> <<>>

\* One window call on the geometry [fullScreen, bounds].  setFullScreen
\* leaves the bounds last set untouched.
ApplyCall(geom, call) ==
    CASE call.k = "setFullScreen" -> [geom EXCEPT !.fullScreen = call.flag]
      [] call.k = "setBounds"     -> [geom EXCEPT !.bounds = <<call.arg>>]
      [] OTHER                    -> geom

RECURSIVE ApplyCalls(_, _)
ApplyCalls(geom, calls) ==
    IF calls = <<>> THEN geom ELSE ApplyCalls(ApplyCall(geom, Head(calls)), Tail(calls))

\* applyOverlaySize, as a function from the window's geometry to its geometry
\* after the call.
applyOverlaySize(geom, size, customWidth, customHeight) ==
    ApplyCalls(geom, ResolverCalls(size, customWidth, customHeight))

----------------------------------------------------------------------------
(* Overlay Surface: the 'update-overlay' listener of the overlay page *)

\* What the page shows before any snapshot: the style sheet's values, the
\* guide's inline height, top and box-shadow unset (<<>>).
InitialPainted ==
    [backgroundColor |-> "#ffeb99", opacity |-> 30, guideActive |-> FALSE,
     guideHeight |-> <<>>, guideTop |-> <<>>, boxShadow |-> <<>>]

\* One box-shadow layer "0 <y>px 0 <color>".
Layer(y, c) == [x |-> 0, y |-> y, blur |-> 0, color |-> c]

\* The guide's box-shadow: one layer above the band for 'single', one above
\* and one below for any other style.
BoxShadow(data) ==
    LET borderWidth == OrDefault(data.readingGuideBorderWidth, DefaultBorderWidth)
        borderColor == IF data.readingGuideBorderColor = ""
                       THEN "rgba(0,0,0,0.9)" ELSE data.readingGuideBorderColor
        borderStyle == IF data.readingGuideBorderStyle = ""
                       THEN "double" ELSE data.readingGuideBorderStyle
    IN  IF borderStyle = "single"
        THEN <<Layer(-borderWidth, borderColor)>>
        ELSE <<Layer(-borderWidth, borderColor), Layer(borderWidth, borderColor)>>

\* Mutant: the stored opacity is painted whether or not the overlay is active.
RenderStoredOpacity(p, data) ==
    LET base == [p EXCEPT !.backgroundColor = data.color, !.opacity = data.opacity]
    IN  IF data.readingGuideEnabled
        THEN [base EXCEPT !.guideActive = TRUE,
                          !.guideHeight = <<data.readingGuideHeight>>,
                          !.guideTop    = <<data.readingGuidePosition>>,
                          !.boxShadow   = BoxShadow(data)]
        ELSE [base EXCEPT !.guideActive = FALSE]

\* Mutant: the guide is placed by the first snapshot that enables it and not
\* moved by later ones.
RenderKeepsGuideTop(p, data) ==
    LET base == [p EXCEPT !.backgroundColor = data.color,
                          !.opacity = IF data.isActive THEN data.opacity ELSE 0]
    IN  IF data.readingGuideEnabled
        THEN [base EXCEPT !.guideActive = TRUE,
                          !.guideHeight = <<data.readingGuideHeight>>,
                          !.guideTop    = IF p.guideTop = <<>>
                                          THEN <<data.readingGuidePosition>>
                                          ELSE p.guideTop,
                          !.boxShadow   = BoxShadow(data)]
        ELSE [base EXCEPT !.guideActive = FALSE]

\* The listener: p is the style painted so far, data the snapshot.  With the
\* guide disabled only the 'active' class is removed; the guide's inline
\* styles stay as they were.
Render(p, data) ==
    LET base == [p EXCEPT !.backgroundColor = data.color,
                          !.opacity = IF data.isActive THEN data.opacity ELSE 0]
    IN  IF data.readingGuideEnabled
        THEN [base EXCEPT !.guideActive = TRUE,
                          !.guideHeight = <<data.readingGuideHeight>>,
                          !.guideTop    = <<data.readingGuidePosition>>,
                          !.boxShadow   = BoxShadow(data)]
        ELSE [base EXCEPT !.guideActive = FALSE]

\* What of a painted style reaches the screen: #reading-guide-gap is
\* display: none without the 'active' class, so its height, top and
\* box-shadow show only while the guide is active.
Visible(p) ==
    IF p.guideActive THEN p
    ELSE [p EXCEPT !.guideHeight = <<>>, !.guideTop = <<>>, !.boxShadow = <<>>]

----------------------------------------------------------------------------
(* update-overlay: the merge *)

\* data.f !== undefined ? data.f : currentOverlayState.f
Pick(cur, data, f) == IF Has(data, f) THEN data[f] ELSE cur[f]

\* data.size || currentOverlayState.size
PickSize(cur, data) == IF TruthyStr(data, "size") THEN data.size ELSE cur.size

Merge(cur, data) ==
    [color                   |-> Pick(cur, data, "color"),
     opacity                 |-> Pick(cur, data, "opacity"),
     isActive                |-> Pick(cur, data, "isActive"),
     size                    |-> PickSize(cur, data),
     customWidth             |-> Pick(cur, data, "customWidth"),
     customHeight            |-> Pick(cur, data, "customHeight"),
     readingGuideEnabled     |-> Pick(cur, data, "readingGuideEnabled"),
     readingGuideHeight      |-> Pick(cur, data, "readingGuideHeight"),
     readingGuidePosition    |-> Pick(cur, data, "readingGuidePosition"),
     readingGuideStepSize    |-> Pick(cur, data, "readingGuideStepSize"),
     readingGuideBorderWidth |-> Pick(cur, data, "readingGuideBorderWidth"),
     readingGuideBorderColor |-> Pick(cur, data, "readingGuideBorderColor"),
     readingGuideBorderStyle |-> Pick(cur, data, "readingGuideBorderStyle")]

----------------------------------------------------------------------------
(* Initial state: the main script has been evaluated *)

\* A process start on a display whose work area is `area`, the store holding
\* `saved`: the state is read from the store.
BootFrom(saved, area) ==
    /\ store = saved
    /\ currentOverlayState = store
    /\ phase = "loaded"
    /\ mainWindow = "none"
    /\ overlayWindow = "none"
    /\ visible = FALSE
    /\ fullScreen = FALSE
    /\ bounds = <<>>
    /\ hotkeys = {}
    /\ surface = <<>>
    /\ painted = InitialPainted
    /\ workArea = area
    /\ op = "load"
    /\ opLog = <<>>
    /\ nudges = 0
    /\ toggleRun = 0
    /\ mainPage = "none"
    /\ loadPushes = 0
    /\ loadPushed = <<>>
    /\ ui = <<>>
    /\ toMain = <<>>
    /\ toUI = <<>>
    /\ listeners = NoListeners
    /\ bridgeLog = <<>>

\* First run: the store holds its defaults.
Boot(area) == BootFrom(Defaults, area)

\* The platform of the runs explored unless a specification says otherwise.
Init == Boot(DefaultWorkArea) /\ isMac = FALSE

----------------------------------------------------------------------------
(* Handlers as programs.  A handler is the sequence of the effects it       *)
(* performs, in the order of its statements; Exec runs them one after the   *)
(* other, so that what a later statement reads is what an earlier one wrote.*)

Eff(k, arg, flag) == [k |-> k, arg |-> arg, flag |-> flag]

SetState(st) == Eff("set", st, FALSE)         \* currentOverlayState = st
Persist      == Eff("persist", <<>>, FALSE)   \* store.set('overlayState', currentOverlayState)
Send         == Eff("send", <<>>, FALSE)      \* overlayWindow.webContents.send('update-overlay', currentOverlayState)
Show         == Eff("show", <<>>, FALSE)      \* overlayWindow.show()
Hide         == Eff("hide", <<>>, FALSE)      \* overlayWindow.hide()
Notify(b)    == Eff("notify", <<>>, b)        \* mainWindow.webContents.send('overlay-toggled', b)
Throw        == Eff("throw", <<>>, FALSE)     \* a method call on a destroyed BrowserWindow: TypeError, Object has been destroyed
Resolve(size, customWidth, customHeight) ==
    Eff("resolve", [size |-> size, customWidth |-> customWidth,
                    customHeight |-> customHeight], FALSE)

\* applyOverlaySize(size, customWidth, customHeight), called with the overlay
\* window in existence.
ResolveProgram(size, customWidth, customHeight) ==
    <<Resolve(size, customWidth, customHeight)>>
    \o ResolverCalls(size, customWidth, customHeight)

\* One effect on the machine m = [cur, store, visible, geom, surface,
\* painted, log].  send and persist carry the in-memory state of that moment;
\* the Overlay Surface paints a snapshot when it is sent one.  "resolve" marks
\* the entry into applyOverlaySize, whose window calls follow it.
Step(m, e) ==
    LET m1 == CASE e.k = "set"     -> [m EXCEPT !.cur = e.arg]
                [] e.k = "persist" -> [m EXCEPT !.store = Parse(Serialize(m.cur))]
                [] e.k = "send"    -> [m EXCEPT !.surface = <<m.cur>>,
                                                !.painted = Render(m.painted, m.cur)]
                [] e.k = "show"    -> [m EXCEPT !.visible = TRUE]
                [] e.k = "hide"    -> [m EXCEPT !.visible = FALSE]
                [] e.k \in {"setFullScreen", "setBounds"} ->
                       [m EXCEPT !.geom = ApplyCall(m.geom, e)]
                [] OTHER           -> m
        arg == IF e.k \in {"resolve", "setBounds"} THEN e.arg ELSE <<>>
    IN  [m1 EXCEPT !.log = Append(m.log, Event(e.k, m.cur, m1.cur, e.flag, arg))]

RECURSIVE Exec(_, _)
Exec(m, effects) ==
    IF effects = <<>> THEN m ELSE Exec(Step(m, Head(effects)), Tail(effects))

\* The machine before a handler runs.
Machine ==
    [cur |-> currentOverlayState, store |-> store, visible |-> visible,
     geom |-> [fullScreen |-> fullScreen, bounds |-> bounds],
     surface |-> surface, painted |-> painted, log |-> <<>>]

\* Run a handler's program and record it as the last operation.
Run(program, name) ==
    \E m \in {Exec(Machine, program)} :
        /\ currentOverlayState' = m.cur
        /\ store' = m.store
        /\ visible' = m.visible
        /\ fullScreen' = m.geom.fullScreen
        /\ bounds' = m.geom.bounds
        /\ surface' = m.surface
        /\ painted' = m.painted
        /\ opLog' = m.log
        /\ op' = name

\* overlayWindow && !overlayWindow.isDestroyed()
OverlayUsable == overlayWindow = "open"

\* mainWindow && !mainWindow.isDestroyed()
MainUsable == mainWindow = "open"

----------------------------------------------------------------------------
(* ipcMain.on('update-overlay') *)

\* Mutant: the window is shown when it should be, but never hidden.
ReconcileShowOnly(isActive, currentlyVisible) ==
    IF isActive /\ ~currentlyVisible THEN <<Show>> ELSE <<>>

\* Sync window visibility with isActive state
ReconcileVisibility(isActive, currentlyVisible) ==
    IF isActive /\ ~currentlyVisible THEN <<Show>>
    ELSE IF ~isActive /\ currentlyVisible THEN <<Hide>>
    ELSE <<>>

\* Update size if changed
ResizeIfNamed(data) ==
    IF TruthyStr(data, "size")
    THEN ResolveProgram(data.size, NumArg(data, "customWidth"),
                        NumArg(data, "customHeight"))
    ELSE <<>>

UpdateProgram(cur, currentlyVisible, usable, data) ==
    LET merged == Merge(cur, data)
    IN  <<SetState(merged), Persist>>
        \o (IF usable
            THEN ResizeIfNamed(data) \o <<Send>>
                 \o ReconcileVisibility(merged.isActive, currentlyVisible)
            ELSE <<>>)

\* The Control Surface's renderer sends the message, so its window is open.
UpdateOverlay(data) ==
    /\ phase = "running"
    /\ mainWindow = "open"
    /\ Run(UpdateProgram(currentOverlayState, visible, OverlayUsable, data),
           "update-overlay")
    /\ toggleRun' = 0
    /\ UNCHANGED <<phase, mainWindow, overlayWindow, hotkeys, workArea, nudges>>

----------------------------------------------------------------------------
(* toggleOverlay *)

\* Mutant: the toggle negates the stored flag instead of the window's
\* visibility.
ToggleByStoredFlag(cur, currentlyVisible, mainUsable) ==
    LET newState == ~cur.isActive
    IN  <<SetState([cur EXCEPT !.isActive = newState])>>
        \o (IF newState THEN <<Send, Show>> ELSE <<Hide>>)
        \o <<Persist>>
        \o (IF mainUsable THEN <<Notify(newState)>> ELSE <<>>)

\* Mutant: the Control Surface is told the state before the toggle.
ToggleNotifiesOldState(cur, currentlyVisible, mainUsable) ==
    LET newState == ~currentlyVisible
    IN  <<SetState([cur EXCEPT !.isActive = newState])>>
        \o (IF newState THEN <<Send, Show>> ELSE <<Hide>>)
        \o <<Persist>>
        \o (IF mainUsable THEN <<Notify(currentlyVisible)>> ELSE <<>>)

\* Mutant: the toggle also puts the guide back in the middle.
ToggleResetsGuide(cur, currentlyVisible, mainUsable) ==
    LET newState == ~currentlyVisible
    IN  <<SetState([cur EXCEPT !.isActive = newState,
                               !.readingGuidePosition = Defaults.readingGuidePosition])>>
        \o (IF newState THEN <<Send, Show>> ELSE <<Hide>>)
        \o <<Persist>>
        \o (IF mainUsable THEN <<Notify(newState)>> ELSE <<>>)

\* Mutant: the window is shown before the snapshot is sent.
ToggleShowFirst(cur, currentlyVisible, mainUsable) ==
    LET newState == ~currentlyVisible
    IN  <<SetState([cur EXCEPT !.isActive = newState])>>
        \o (IF newState THEN <<Show, Send>> ELSE <<Hide>>)
        \o <<Persist>>
        \o (IF mainUsable THEN <<Notify(newState)>> ELSE <<>>)

ToggleProgram(cur, currentlyVisible, mainUsable) ==
    LET newState == ~currentlyVisible
    IN  <<SetState([cur EXCEPT !.isActive = newState])>>
        \o (IF newState THEN <<Send, Show>> ELSE <<Hide>>)
        \o <<Persist>>
        \o (IF mainUsable THEN <<Notify(newState)>> ELSE <<>>)

\* A run of toggles starts with a toggle made while the window is hidden and
\* is counted up to MaxToggleRun; the toggle after that starts over.
NextToggleRun ==
    IF toggleRun \in 1..(MaxToggleRun - 1) THEN toggleRun + 1
    ELSE IF ~visible THEN 1 ELSE 0

\* if (overlayWindow) { const newState = !overlayWindow.isVisible(); ... }
\* The variable keeps a window that has been destroyed, and isVisible() on
\* it throws before anything is changed.
ToggleHandler(cur, currentlyVisible, mainUsable, window) ==
    IF window = "none" THEN <<>>
    ELSE IF window = "destroyed" THEN <<Throw>>
    ELSE ToggleProgram(cur, currentlyVisible, mainUsable)

\* The shortcut exists only while the process runs, and then the overlay
\* window has been created.
toggleOverlay ==
    /\ phase = "running"
    /\ "toggle" \in hotkeys
    /\ Run(ToggleHandler(currentOverlayState, visible, MainUsable, overlayWindow),
           "toggleOverlay")
    /\ toggleRun' = IF overlayWindow = "destroyed" THEN 0 ELSE NextToggleRun
    /\ UNCHANGED <<phase, mainWindow, overlayWindow, hotkeys, workArea, nudges>>

----------------------------------------------------------------------------
(* moveReadingGuideUp / moveReadingGuideDown *)

\* Mutant: the gate forgets isActive.
NudgeGateEnabledOnly(cur) == cur.readingGuideEnabled

NudgeGate(cur) == cur.readingGuideEnabled /\ cur.isActive

\* const stepSize = currentOverlayState.readingGuideStepSize || 0.5
StepSize(cur) == OrDefault(cur.readingGuideStepSize, DefaultStep)

UpPosition(cur)   == Max(PosMin, cur.readingGuidePosition - StepSize(cur))
DownPosition(cur) == Min(PosMax, cur.readingGuidePosition + StepSize(cur))

\* Mutant: the nudge does not push the new position to the Overlay Surface.
NudgeWithoutSend(cur, newPosition, usable) ==
    IF cur.readingGuideEnabled /\ cur.isActive
    THEN <<SetState([cur EXCEPT !.readingGuidePosition = newPosition]), Persist>>
    ELSE <<>>

\* Mutant: the nudge does not save the new position.
NudgeWithoutSave(cur, newPosition, usable) ==
    IF cur.readingGuideEnabled /\ cur.isActive
    THEN <<SetState([cur EXCEPT !.readingGuidePosition = newPosition])>>
         \o (IF usable THEN <<Send>> ELSE <<>>)
    ELSE <<>>

NudgeProgram(cur, newPosition, usable) ==
    IF NudgeGate(cur)
    THEN <<SetState([cur EXCEPT !.readingGuidePosition = newPosition])>>
         \o (IF usable THEN <<Send>> ELSE <<>>)
         \o <<Persist>>
    ELSE <<>>

\* The exploration stops nudging after MaxNudges effective nudges.
Nudge(newPosition, name) ==
    /\ phase = "running"
    /\ NudgeGate(currentOverlayState) => nudges < MaxNudges
    /\ Run(NudgeProgram(currentOverlayState, newPosition, OverlayUsable), name)
    /\ nudges' = IF NudgeGate(currentOverlayState) THEN nudges + 1 ELSE nudges
    /\ toggleRun' = 0
    /\ UNCHANGED <<phase, mainWindow, overlayWindow, hotkeys, workArea>>

moveReadingGuideUp ==
    /\ "up" \in hotkeys
    /\ Nudge(UpPosition(currentOverlayState), "moveReadingGuideUp")

moveReadingGuideDown ==
    /\ "down" \in hotkeys
    /\ Nudge(DownPosition(currentOverlayState), "moveReadingGuideDown")

----------------------------------------------------------------------------
(* Process life cycle *)

\* createOverlayWindow: constructed full-screen, hidden, then sized from the
\* saved state.
CreateOverlayProgram(cur) ==
    <<Hide>> \o (IF cur.size # ""
                 THEN ResolveProgram(cur.size, cur.customWidth, cur.customHeight)
                 ELSE <<>>)

\* app.whenReady().then(...): both windows are created and the three global
\* shortcuts registered.
whenReady ==
    /\ phase = "loaded"
    /\ phase' = "running"
    /\ mainWindow' = "open"
    /\ overlayWindow' = "open"
    /\ \E m \in {Exec([Machine EXCEPT !.geom.fullScreen = TRUE],
                         CreateOverlayProgram(currentOverlayState))} :
           /\ visible' = m.visible
           /\ fullScreen' = m.geom.fullScreen
           /\ bounds' = m.geom.bounds
           /\ opLog' = m.log
    /\ hotkeys' = Shortcuts
    /\ op' = "whenReady"
    /\ toggleRun' = 0
    /\ UNCHANGED <<currentOverlayState, store, surface, painted, workArea, nudges>>

\* mainWindow.on('closed'): the user closes the control window.  The overlay
\* window is still open, so not all windows are closed.
mainWindowClosed ==
    /\ phase = "running"
    /\ mainWindow = "open"
    /\ mainWindow' = "closed"
    /\ op' = "closed"
    /\ opLog' = <<>>
    /\ toggleRun' = 0
    /\ UNCHANGED <<currentOverlayState, store, phase, overlayWindow, visible,
                   fullScreen, bounds, hotkeys, surface, painted, workArea, nudges>>

\* The application quits: its windows are destroyed and will-quit releases
\* the shortcuts.
quit ==
    /\ phase = "running"
    /\ phase' = "exited"
    /\ mainWindow' = "closed"
    /\ overlayWindow' = "destroyed"
    /\ visible' = FALSE
    /\ hotkeys' = UnregisterAll(hotkeys)
    /\ op' = "will-quit"
    /\ opLog' = <<>>
    /\ toggleRun' = 0
    /\ UNCHANGED <<currentOverlayState, store, fullScreen, bounds, surface, painted,
                   workArea, nudges>>

\* The application is started again: the script is evaluated anew and reads
\* the state back from the store.
restart ==
    /\ phase = "exited"
    /\ phase' = "loaded"
    /\ currentOverlayState' = store
    /\ mainWindow' = "none"
    /\ overlayWindow' = "none"
    /\ visible' = FALSE
    /\ fullScreen' = FALSE
    /\ bounds' = <<>>
    /\ hotkeys' = {}
    /\ surface' = <<>>
    /\ painted' = InitialPainted
    /\ op' = "load"
    /\ opLog' = <<>>
    /\ toggleRun' = 0
    /\ UNCHANGED <<store, workArea, nudges>>

----------------------------------------------------------------------------
(* The updates explored *)

Colors == {"#ffeb99", "#b3d9ff"}
Sizes == {"fullscreen", "top-half"}
\* 0 %, 50 % (what the Control Surface always sends) and 150 %
Positions == {0, 100, 300}
\* 0.5 % and 0
StepSizes == {1, 0}

\* Updates that carry one field.  size may arrive as the empty string.
FieldUpdates ==
         {[color |-> c] : c \in Colors}
    \cup {[isActive |-> b] : b \in BOOLEAN}
    \cup {[size |-> s] : s \in Sizes \cup {""}}
    \cup {[readingGuideEnabled |-> b] : b \in BOOLEAN}
    \cup {[readingGuidePosition |-> p] : p \in Positions}
    \cup {[readingGuideStepSize |-> s] : s \in StepSizes}

\* Updates as the preload bridge builds them: all thirteen fields.
FullUpdates ==
    {[Defaults EXCEPT !.isActive = b, !.readingGuideEnabled = g] :
        b \in BOOLEAN, g \in BOOLEAN}

Updates == FieldUpdates \cup FullUpdates

\* The main process on its own: the Control Surface's messages are handled
\* as they are sent.
Next ==
    \/ (\E data \in Updates : UpdateOverlay(data)) /\ UNCHANGED controlVars
    \/ toggleOverlay /\ UNCHANGED controlVars
    \/ moveReadingGuideUp /\ UNCHANGED controlVars
    \/ moveReadingGuideDown /\ UNCHANGED controlVars
    \/ whenReady /\ UNCHANGED controlVars
    \/ mainWindowClosed /\ UNCHANGED controlVars
    \/ quit /\ UNCHANGED controlVars
    \/ restart /\ UNCHANGED controlVars

Spec == Init /\ [][Next]_vars

----------------------------------------------------------------------------
(* The window geometry explored: every size mode on every work area *)

AllSizes == {"fullscreen", "top-half", "bottom-half", "left-half", "right-half",
             "center", "custom"}
\* 0, a width that fits every work area, one that fits none and a negative
\* one: the handler stores whatever number it is sent
CustomWidths == {0, 1000, 3000, -100}
CustomHeights == {0, 700, 2000}

GeometryUpdates ==
         {[size |-> s] : s \in AllSizes}
    \cup {[size |-> "custom", customWidth |-> w, customHeight |-> h] :
             w \in CustomWidths, h \in CustomHeights}
    \cup {[customWidth |-> w] : w \in CustomWidths}
    \cup {[customHeight |-> h] : h \in CustomHeights}

InitGeometry == isMac = FALSE /\ \E area \in WorkAreas : Boot(area)

NextGeometry ==
    \/ (\E data \in GeometryUpdates : UpdateOverlay(data)) /\ UNCHANGED controlVars
    \/ whenReady /\ UNCHANGED controlVars
    \/ quit /\ UNCHANGED controlVars
    \/ restart /\ UNCHANGED controlVars

SpecGeometry == InitGeometry /\ [][NextGeometry]_vars

----------------------------------------------------------------------------
(* The painting explored: snapshots that differ in what the surface paints *)

Opacities == {30, 80}
GuidePositions == {100, 0}
BorderWidths == {0, 5}
BorderColors == {"", "#ff0000"}
BorderStyles == {"single", "double"}

RenderUpdates ==
         {[opacity |-> o] : o \in Opacities}
    \cup {[isActive |-> b] : b \in BOOLEAN}
    \cup {[readingGuideEnabled |-> b] : b \in BOOLEAN}
    \cup {[readingGuidePosition |-> p] : p \in GuidePositions}
    \cup {[readingGuideBorderWidth |-> w] : w \in BorderWidths}
    \cup {[readingGuideBorderColor |-> c] : c \in BorderColors}
    \cup {[readingGuideBorderStyle |-> b] : b \in BorderStyles}

NextRender ==
    \/ (\E data \in RenderUpdates : UpdateOverlay(data)) /\ UNCHANGED controlVars
    \/ toggleOverlay /\ UNCHANGED controlVars
    \/ whenReady /\ UNCHANGED controlVars

SpecRender == Init /\ [][NextRender]_vars

----------------------------------------------------------------------------
(* The control window's page and the windows' life cycle *)

\* createMainWindow: the window is created and its page starts loading.
createMainWindow ==
    /\ mainWindow' = "open"
    /\ mainPage' = "loading"

\* app.whenReady(), with the control window's page.
Ready ==
    /\ whenReady
    /\ mainPage' = "loading"
    /\ UNCHANGED <<bridgeVars, isMac, loadPushes, loadPushed, ui, toMain, toUI>>

\* mainWindow.webContents.on('did-finish-load'): the saved state is pushed to
\* the page that has just loaded.
didFinishLoad ==
    /\ phase = "running"
    /\ mainPage = "loading"
    /\ MainUsable
    /\ loadPushes < MaxLoadPushes
    /\ mainPage' = "loaded"
    /\ loadPushes' = loadPushes + 1
    /\ loadPushed' = <<currentOverlayState>>
    /\ op' = "did-finish-load"
    /\ opLog' = <<>>
    /\ UNCHANGED <<stateVars, phase, windowVars, hotkeys, workArea, nudges, toggleRun,
                   bridgeVars, isMac, ui, toMain, toUI>>

\* The user reloads the control window's page (View > Reload of the default
\* application menu): the page, its listeners and the messages on their way
\* to and from it are gone, and the page loads anew.
reload ==
    /\ phase = "running"
    /\ MainUsable
    /\ mainPage = "loaded"
    /\ mainPage' = "loading"
    /\ ui' = <<>>
    /\ toMain' = <<>>
    /\ toUI' = <<>>
    /\ listeners' = NoListeners
    /\ bridgeLog' = <<>>
    /\ UNCHANGED <<stateVars, phase, windowVars, hotkeys, workArea, traceVars,
                   isMac, loadPushes, loadPushed>>

\* The user closes the control window.
ControlClosed ==
    /\ mainWindowClosed
    /\ mainPage' = "none"
    /\ ui' = <<>>
    /\ toMain' = <<>>
    /\ toUI' = <<>>
    /\ listeners' = NoListeners
    /\ bridgeLog' = <<>>
    /\ UNCHANGED <<isMac, loadPushes, loadPushed>>

\* The overlay window is closed by the user: show() gives it the focus, and
\* the default menu's Close Window applies to the focused window.  The main
\* process keeps its reference, which isDestroyed() then reports.
overlayWindowClosed ==
    /\ phase = "running"
    /\ OverlayUsable
    /\ visible
    /\ overlayWindow' = "destroyed"
    /\ visible' = FALSE
    /\ op' = "overlay-closed"
    /\ opLog' = <<>>
    /\ toggleRun' = 0
    /\ UNCHANGED <<stateVars, phase, mainWindow, fullScreen, bounds, surface, painted,
                   hotkeys, workArea, nudges, controlVars>>

\* app.on('window-all-closed'), emitted when the last window has closed:
\* app.quit() unless on macOS, and will-quit then releases the shortcuts.
windowAllClosed ==
    /\ phase = "running"
    /\ mainWindow = "closed"
    /\ overlayWindow = "destroyed"
    /\ ~isMac
    /\ phase' = "exited"
    /\ hotkeys' = UnregisterAll(hotkeys)
    /\ op' = "window-all-closed"
    /\ opLog' = <<>>
    /\ toggleRun' = 0
    /\ UNCHANGED <<stateVars, windowVars, workArea, nudges, controlVars>>

\* app.on('activate') on macOS: the control window is created again when no
\* window is left.
activate ==
    /\ phase = "running"
    /\ isMac
    /\ mainWindow = "closed"
    /\ overlayWindow = "destroyed"
    /\ createMainWindow
    /\ op' = "activate"
    /\ opLog' = <<>>
    /\ toggleRun' = 0
    /\ UNCHANGED <<stateVars, phase, overlayWindow, visible, fullScreen, bounds,
                   surface, painted, hotkeys, workArea, nudges,
                   bridgeVars, isMac, loadPushes, loadPushed, ui, toMain, toUI>>

\* The user quits the application.
Quit ==
    /\ quit
    /\ mainPage' = "none"
    /\ ui' = <<>>
    /\ toMain' = <<>>
    /\ toUI' = <<>>
    /\ listeners' = NoListeners
    /\ bridgeLog' = <<>>
    /\ UNCHANGED <<isMac, loadPushes, loadPushed>>

\* The application is started again: a new process run.
Restart ==
    /\ restart
    /\ mainPage' = "none"
    /\ loadPushes' = 0
    /\ loadPushed' = <<>>
    /\ UNCHANGED <<bridgeVars, isMac, ui, toMain, toUI>>

InitLife == Boot(DefaultWorkArea) /\ isMac \in BOOLEAN

\* The updates explored while windows come and go: the overlay switched on,
\* the guide switched on, a size named.
LifeUpdates == {[isActive |-> TRUE], [readingGuideEnabled |-> TRUE],
                [size |-> "top-half"]}

\* The hotkeys stay registered, and the Control Surface goes on sending,
\* after the overlay window has been closed.
NextLife ==
    \/ Ready
    \/ didFinishLoad
    \/ reload
    \/ toggleOverlay /\ UNCHANGED controlVars
    \/ moveReadingGuideUp /\ UNCHANGED controlVars
    \/ (\E data \in LifeUpdates : UpdateOverlay(data)) /\ UNCHANGED controlVars
    \/ ControlClosed
    \/ overlayWindowClosed
    \/ windowAllClosed
    \/ activate
    \/ Quit
    \/ Restart

\* Electron emits did-finish-load once the page has loaded and
\* window-all-closed once the last window has closed; what the user does is
\* under no obligation.
SpecLife ==
    InitLife /\ [][NextLife]_vars /\ WF_vars(didFinishLoad) /\ WF_vars(windowAllClosed)

----------------------------------------------------------------------------
(* The Control Surface (the React App) and its messages *)

\* The settings the Control Surface keeps as React state: every field but the
\* guide's position.
UiFields == Fields \ {"readingGuidePosition"}

\* The position every updateOverlay call passes: 50 %.
UiPosition == 100

\* loadSavedState: the React state set from the reply to getOverlayState.
LoadedUi(savedState) ==
    [f \in UiFields |->
        CASE f = "readingGuideStepSize" ->
                 OrDefault(savedState.readingGuideStepSize, DefaultStep)
          [] f = "readingGuideBorderWidth" ->
                 OrDefault(savedState.readingGuideBorderWidth, DefaultBorderWidth)
          [] f = "readingGuideBorderColor" ->
                 IF savedState.readingGuideBorderColor = ""
                 THEN "rgba(0,0,0,0.9)" ELSE savedState.readingGuideBorderColor
          [] f = "readingGuideBorderStyle" ->
                 IF savedState.readingGuideBorderStyle = ""
                 THEN "double" ELSE savedState.readingGuideBorderStyle
          [] OTHER -> savedState[f]]

\* Mutant: the Control Surface leaves the position out of its updates.
UiPayloadWithoutPosition(st) == [f \in UiFields |-> st[f]]

\* window.electron.updateOverlay(...): all thirteen fields, the position 50.
UiPayload(st) ==
    [f \in Fields |-> IF f = "readingGuidePosition" THEN UiPosition ELSE st[f]]

\* The updateOverlay effect, run after a render in which a setting changed:
\* it sends nothing during the initial load.
EffectSends(u) == IF u.initial THEN <<>> ELSE <<UiPayload(u.st)>>

\* The App has mounted and its getOverlayState request is answered.  The
\* reply travels behind the overlay-toggled messages sent before it.
uiLoadSavedState ==
    /\ phase = "running"
    /\ mainPage = "loaded"
    /\ ui = <<>>
    /\ toUI = <<>>
    /\ ui' = <<[st |-> LoadedUi(currentOverlayState), initial |-> TRUE,
                 clicked |-> FALSE]>>
    /\ UNCHANGED <<stateVars, phase, windowVars, hotkeys, workArea, traceVars,
                   bridgeVars, isMac, mainPage, loadPushes, loadPushed, toMain, toUI>>

\* setTimeout(() => { isInitialLoad.current = false; }, 100)
uiInitialLoadOver ==
    /\ ui # <<>>
    /\ ui[1].initial
    /\ ui' = <<[ui[1] EXCEPT !.initial = FALSE, !.clicked = FALSE]>>
    /\ UNCHANGED <<stateVars, phase, windowVars, hotkeys, workArea, traceVars,
                   bridgeVars, isMac, mainPage, loadPushes, loadPushed, toMain, toUI>>

\* The Control Surface state u with setting f set to v, and what it sends.
UiSet(u, f, v, direct) ==
    LET u1 == [u EXCEPT !.st[f] = v]
    IN  /\ Len(toMain) + Len(direct) + Len(EffectSends(u1)) <= MaxInFlight
        /\ ui' = <<u1>>
        /\ toMain' = toMain \o direct \o EffectSends(u1)

\* The user switches the reading guide on or off in the Control Surface.
uiSetReadingGuideEnabled ==
    /\ ui # <<>>
    /\ UiSet(ui[1], "readingGuideEnabled", ~ui[1].st.readingGuideEnabled, <<>>)
    /\ UNCHANGED <<stateVars, phase, windowVars, hotkeys, workArea, traceVars,
                   bridgeVars, isMac, mainPage, loadPushes, loadPushed, toUI>>

\* handleToggleOverlay: the button sends the update itself, and the effect
\* sends it again because isActive changed.  A click less than 300 ms after
\* the last one is ignored, so the 100 ms of the initial load hold one click
\* at most.
handleToggleOverlay ==
    /\ ui # <<>>
    /\ ~(ui[1].initial /\ ui[1].clicked)
    /\ LET newState == ~ui[1].st.isActive
       IN  UiSet([ui[1] EXCEPT !.clicked = ui[1].initial], "isActive", newState,
                 <<UiPayload([ui[1].st EXCEPT !.isActive = newState])>>)
    /\ UNCHANGED <<stateVars, phase, windowVars, hotkeys, workArea, traceVars,
                   bridgeVars, isMac, mainPage, loadPushes, loadPushed, toUI>>

\* The 'overlay-toggled' listener: setIsActive(state).  A message that finds
\* no mounted App is lost.
uiOverlayToggled ==
    /\ toUI # <<>>
    /\ toUI' = Tail(toUI)
    /\ IF ui = <<>> \/ ui[1].st.isActive = Head(toUI)
       THEN UNCHANGED <<ui, toMain>>
       ELSE UiSet(ui[1], "isActive", Head(toUI), <<>>)
    /\ UNCHANGED <<stateVars, phase, windowVars, hotkeys, workArea, traceVars,
                   bridgeVars, isMac, mainPage, loadPushes, loadPushed>>

\* The main process handles the oldest update-overlay message in flight.
ownerUpdate ==
    /\ toMain # <<>>
    /\ UpdateOverlay(Head(toMain))
    /\ toMain' = Tail(toMain)
    /\ UNCHANGED <<bridgeVars, isMac, mainPage, loadPushes, loadPushed, ui, toUI>>

\* The overlay-toggled messages a handler sent, in order.
RECURSIVE NotifyFlags(_)
NotifyFlags(log) ==
    IF log = <<>> THEN <<>>
    ELSE (IF Head(log).ev = "notify" THEN <<Head(log).flag>> ELSE <<>>)
         \o NotifyFlags(Tail(log))

\* The toggle hotkey, its overlay-toggled message on its way.
HotkeyToggle ==
    /\ Len(toUI) < MaxInFlight
    /\ toggleOverlay
    /\ toUI' = toUI \o NotifyFlags(opLog')
    /\ UNCHANGED <<bridgeVars, isMac, mainPage, loadPushes, loadPushed, ui, toMain>>

\* A process start that finds the state an earlier run saved: the overlay
\* was left switched on or off.
InitAsync ==
    /\ isMac = FALSE
    /\ \E b \in BOOLEAN : BootFrom([Defaults EXCEPT !.isActive = b], DefaultWorkArea)

NextAsync ==
    \/ Ready
    \/ didFinishLoad
    \/ uiLoadSavedState
    \/ uiInitialLoadOver
    \/ uiSetReadingGuideEnabled
    \/ handleToggleOverlay
    \/ uiOverlayToggled
    \/ ownerUpdate
    \/ HotkeyToggle
    \/ moveReadingGuideUp /\ UNCHANGED controlVars

SpecAsync == InitAsync /\ [][NextAsync]_vars

----------------------------------------------------------------------------
(* The preload bridge: window.electron.on / removeListener *)

\* The callbacks the page passes: handleToggle of the App.
Callbacks == {"handleToggle"}

\* A function: the page's callback itself has serial 0.
Fn(cb) == [callback |-> cb, serial |-> 0]

\* const subscription = (_event, ...args) => callback(_event, ...args):
\* a new function at every call of on, which calls the callback.
Subscription(callback, n) == [callback |-> callback.callback, serial |-> n]

\* A function of the page's world that has crossed the context bridge and is
\* not the function it stands for.
Proxy(f) == [callback |-> f.callback, serial |-> 0 - f.serial]

\* ipcRenderer.on(channel, listener)
IpcOn(ls, channel, listener) == [ls EXCEPT ![channel] = Append(@, listener)]

\* EventEmitter.removeListener: the most recently added instance of the
\* listener is removed, if there is one.
RECURSIVE RemoveLast(_, _)
RemoveLast(seq, f) ==
    IF seq = <<>> THEN <<>>
    ELSE LET n == Len(seq)
         IN  IF seq[n] = f THEN SubSeq(seq, 1, n - 1)
             ELSE Append(RemoveLast(SubSeq(seq, 1, n - 1), f), seq[n])

\* ipcRenderer.removeListener(channel, listener)
IpcRemoveListener(ls, channel, listener) ==
    [ls EXCEPT ![channel] = RemoveLast(@, listener)]

\* The callbacks a message on the channel invokes, in order.
Invoked(ls, channel) == [i \in 1..Len(ls[channel]) |-> ls[channel][i].callback]

\* The subscriptions registered: what on has returned to the page.
Subscriptions == UNION {{listeners[c][i] : i \in 1..Len(listeners[c])} : c \in Channels}

\* What reaches the preload script when the page passes f: its own callback
\* arrives as the function on was given; a subscription on has returned
\* arrives as itself or as a proxy of it, as the Electron version makes it.
Arrivals(f) == IF f.serial = 0 THEN {f} ELSE {f, Proxy(f)}

BridgeCall(call, channel, f, invoked) ==
    [call |-> call, channel |-> channel, f |-> f, invoked |-> invoked]

\* The page calls window.electron.on(channel, callback).
on ==
    /\ phase = "running"
    /\ mainPage = "loaded"
    /\ Len(bridgeLog) < MaxBridgeLog
    /\ \E channel \in Channels, cb \in Callbacks :
           /\ listeners' =
                  IF channel \in ValidChannels
                  THEN IpcOn(listeners, channel,
                             Subscription(Fn(cb), Len(bridgeLog) + 1))
                  ELSE listeners
           /\ bridgeLog' = Append(bridgeLog, BridgeCall("on", channel, Fn(cb), <<>>))
    /\ UNCHANGED <<stateVars, phase, windowVars, hotkeys, workArea, traceVars,
                   isMac, mainPage, loadPushes, loadPushed, ui, toMain, toUI>>

\* The page calls window.electron.removeListener(channel, f), f its callback
\* or what on returned.
removeListener ==
    /\ phase = "running"
    /\ mainPage = "loaded"
    /\ Len(bridgeLog) < MaxBridgeLog
    /\ \E channel \in Channels, f \in {Fn(cb) : cb \in Callbacks} \cup Subscriptions :
           /\ \E callback \in Arrivals(f) :
                  listeners' =
                      IF channel \in ValidChannels
                      THEN IpcRemoveListener(listeners, channel, callback)
                      ELSE listeners
           /\ bridgeLog' = Append(bridgeLog,
                                  BridgeCall("removeListener", channel, f, <<>>))
    /\ UNCHANGED <<stateVars, phase, windowVars, hotkeys, workArea, traceVars,
                   isMac, mainPage, loadPushes, loadPushed, ui, toMain, toUI>>

\* A message arrives on a channel: ipcRenderer calls the channel's listeners.
ipcMessage ==
    /\ phase = "running"
    /\ mainPage = "loaded"
    /\ Len(bridgeLog) < MaxBridgeLog
    /\ \E channel \in Channels :
           bridgeLog' = Append(bridgeLog,
                               BridgeCall("message", channel, Fn(""),
                                          Invoked(listeners, channel)))
    /\ UNCHANGED <<stateVars, phase, windowVars, hotkeys, workArea, traceVars,
                   isMac, mainPage, loadPushes, loadPushed, ui, toMain, toUI,
                   listeners>>

NextBridge ==
    \/ Ready
    \/ didFinishLoad
    \/ reload
    \/ on
    \/ removeListener
    \/ ipcMessage

SpecBridge == Init /\ [][NextBridge]_vars

----------------------------------------------------------------------------
(* Reading opLog *)

EventsOf(log, e) == {i \in 1..Len(log) : log[i].ev = e}

\* Number of snapshots the last operation pushed to the Overlay Surface.
PushCount(log) == Cardinality(EventsOf(log, "send"))

NudgeOps == {"moveReadingGuideUp", "moveReadingGuideDown"}

----------------------------------------------------------------------------
(* C1 *)

\* C1: handling update-overlay(U) on state S yields a state equal to U on
\* every field U carries and equal to S on every other field, for all
\* thirteen fields and every value U may carry.
C1_MergeFieldByField ==
    [][\A data \in Updates :
          UpdateOverlay(data) =>
              \A f \in Fields :
                  currentOverlayState'[f] =
                      IF f \in DOMAIN data THEN data[f] ELSE currentOverlayState[f]]_vars

\* C2: between operations the record persisted under 'overlayState' equals
\* the in-memory OverlayState field for field.
C2_PersistedEqualsMemory ==
    phase \in {"loaded", "running"} =>
        \A f \in Fields : store[f] = currentOverlayState[f]

\* A nudge has moved the guide and the store holds the new position.
C2_Witness ==
    /\ op = "moveReadingGuideUp"
    /\ opLog # <<>>
    /\ store.readingGuidePosition = 99
    /\ store.isActive

\* C3: between operations, from startup onward, isActive equals the actual
\* visibility of the overlay window.
C3_ActiveMirrorsVisibility ==
    phase = "running" => (currentOverlayState.isActive = visible)

\* C4: a toggle sets isActive to the negation of the window's visibility
\* just before the call and leaves the window visible exactly when the new
\* isActive is true; so in a run of toggles that starts from a hidden window
\* the odd toggles give (isActive, visible) and the even ones (not isActive,
\* hidden), whatever isActive was stored before.
C4_ToggleFollowsVisibility ==
    /\ [][(op' = "toggleOverlay" /\ overlayWindow = "open") =>
            /\ currentOverlayState'.isActive = ~visible
            /\ visible' = currentOverlayState'.isActive]_vars
    /\ [](toggleRun > 0 =>
            /\ currentOverlayState.isActive = (toggleRun % 2 = 1)
            /\ visible = (toggleRun % 2 = 1))

\* The second of two toggles in a row, the first of which found the window
\* hidden although the stored isActive was true.
C4_SecondToggleWitness ==
    /\ op = "toggleOverlay"
    /\ toggleRun = 2
    /\ ~visible
    /\ opLog[1].before.isActive

\* A toggle made while the window was hidden and the stored isActive true.
C4_Witness ==
    /\ op = "toggleOverlay"
    /\ toggleRun = 1
    /\ opLog[1].before.isActive
    /\ visible

\* C5: after every update-overlay handled while the overlay window exists,
\* the window is visible if and only if the merged isActive is true.
C5_UpdateReconcilesVisibility ==
    (op = "update-overlay" /\ overlayWindow = "open") =>
        (visible = currentOverlayState.isActive)

\* An update found the window hidden with isActive already stored as true,
\* and showed it.
C5_Witness ==
    /\ op = "update-overlay"
    /\ overlayWindow = "open"
    /\ opLog[1].before.isActive
    /\ EventsOf(opLog, "show") # {}
    /\ visible

\* C6: every operation that mutates OverlayState (update-overlay, toggle in
\* either direction, move-up, move-down) pushes the full post-mutation state
\* to the Overlay Surface as part of that operation.
C6_EveryMutationPushes ==
    (overlayWindow = "open" /\ EventsOf(opLog, "set") # {}) =>
        \E i \in EventsOf(opLog, "send") : opLog[i].st = currentOverlayState

\* C7: in any operation that shows the hidden overlay window, a snapshot
\* equal to the current full OverlayState is sent before the window is
\* shown, and the state does not change between that send and the show.
C7_RenderBeforeReveal ==
    \A i \in EventsOf(opLog, "show") :
        \E j \in EventsOf(opLog, "send") :
            /\ j < i
            /\ opLog[j].st = opLog[i].st
            /\ opLog[i].st = currentOverlayState
            /\ surface = <<currentOverlayState>>
            /\ \A k \in j..i : opLog[k].before = opLog[k].st

\* A toggle has shown the window.
C7_Witness ==
    /\ op = "toggleOverlay"
    /\ EventsOf(opLog, "show") # {}
    /\ visible
    /\ currentOverlayState.color # Defaults.color

\* C8: move-up and move-down do nothing unless both readingGuideEnabled and
\* isActive are true: the state, the persisted record and the Overlay
\* Surface are unchanged and no snapshot is pushed.
C8_NudgeGated ==
    [][(op' \in NudgeOps /\ ~(currentOverlayState.readingGuideEnabled
                               /\ currentOverlayState.isActive)) =>
          /\ currentOverlayState' = currentOverlayState
          /\ store' = store
          /\ surface' = surface
          /\ PushCount(opLog') = 0]_vars

\* A nudge was made with the guide enabled and the overlay inactive.
C8_Witness ==
    /\ op \in NudgeOps
    /\ opLog = <<>>
    /\ currentOverlayState.readingGuideEnabled
    /\ ~currentOverlayState.isActive

\* C9: after every nudge that takes effect, readingGuidePosition lies in
\* [0, 100], for any starting position and any step size.
C9_PositionClamped ==
    (op \in NudgeOps /\ opLog # <<>>) =>
        (currentOverlayState.readingGuidePosition >= PosMin
         /\ currentOverlayState.readingGuidePosition <= PosMax)

\* C10: when the gate holds, move-up sets the position to max(0, p - s) and
\* move-down to min(100, p + s), s being exactly the stored
\* readingGuideStepSize; the new state is pushed to the Overlay Surface and
\* persisted.
C10_NudgeByStoredStep ==
    [][(op' \in NudgeOps /\ currentOverlayState.readingGuideEnabled
                         /\ currentOverlayState.isActive) =>
          LET p == currentOverlayState.readingGuidePosition
              s == currentOverlayState.readingGuideStepSize
          IN  /\ currentOverlayState'.readingGuidePosition =
                     IF op' = "moveReadingGuideUp" THEN Max(0, p - s)
                                                   ELSE Min(200, p + s)
              /\ surface' = <<currentOverlayState'>>
              /\ store' = currentOverlayState']_vars

\* C10, for the steps the code does apply as stored: with a non-zero stored
\* step the new position is max(0, p - s) or min(100, p + s), pushed and
\* persisted.
C10_NudgeByNonZeroStep ==
    [][(op' \in NudgeOps /\ currentOverlayState.readingGuideEnabled
                         /\ currentOverlayState.isActive
                         /\ currentOverlayState.readingGuideStepSize # 0) =>
          LET p == currentOverlayState.readingGuidePosition
              s == currentOverlayState.readingGuideStepSize
          IN  /\ currentOverlayState'.readingGuidePosition =
                     IF op' = "moveReadingGuideUp" THEN Max(0, p - s)
                                                   ELSE Min(200, p + s)
              /\ surface' = <<currentOverlayState'>>
              /\ store' = currentOverlayState']_vars

----------------------------------------------------------------------------
(* Reading the resolver's calls from opLog *)

GeometryFields == {"size", "customWidth", "customHeight"}

\* The invocations of applyOverlaySize with the given size in the last
\* operation.
ResolvedAs(size) == {i \in EventsOf(opLog, "resolve") : opLog[i].arg.size = size}

\* The rectangles the last operation passed to setBounds.
BoundsSet == {opLog[j].arg : j \in EventsOf(opLog, "setBounds")}

\* The rectangle the window has, if the last operation set the window's
\* bounds once and to it; no rectangle otherwise.
BoundsGiven == {r \in BoundsSet : BoundsSet = {r} /\ bounds = <<r>>}

\* C11: an update-overlay that changes size, customWidth or customHeight
\* invokes the Window Geometry Resolver, and does so before the snapshot is
\* broadcast to the Overlay Surface, also when the update carries only
\* customWidth or only customHeight.
C11_ResolverBeforeBroadcast ==
    (/\ op = "update-overlay"
     /\ OverlayUsable
     /\ \E f \in GeometryFields : opLog[1].before[f] # currentOverlayState[f])
    => /\ EventsOf(opLog, "send") # {}
       /\ \E i \in EventsOf(opLog, "resolve") :
              \A j \in EventsOf(opLog, "send") : i < j

C13_HalvesTopBottom ==
    LET W == workArea.width
        H == workArea.height
        Top(r)    == /\ r = Rect(0, 0, W, H \div 2)
                     /\ (W = 1920 /\ H = 1080) => r = Rect(0, 0, 1920, 540)
        Bottom(r) == r.width = W /\ r.height = H \div 2 /\ r.y + r.height = H
    IN  /\ ResolvedAs("top-half") # {} => \E r \in BoundsGiven : Top(r)
        /\ ResolvedAs("bottom-half") # {} => \E r \in BoundsGiven : Bottom(r)

\* C14: on every work area W x H, 'left-half' yields {0, 0, floor(W/2), H}
\* and 'right-half' yields height H and width floor(W/2) with x + width = W.
C14_HalvesLeftRight ==
    LET W == workArea.width
        H == workArea.height
        Left(r)  == r = Rect(0, 0, W \div 2, H)
        Right(r) == r.height = H /\ r.width = W \div 2 /\ r.x + r.width = W
    IN  /\ ResolvedAs("left-half") # {} => \E r \in BoundsGiven : Left(r)
        /\ ResolvedAs("right-half") # {} => \E r \in BoundsGiven : Right(r)

\* C15: on every work area W x H, 'center' yields width floor(0.7 W), height
\* floor(0.7 H), x = floor((W - width)/2) and y = floor((H - height)/2), so
\* the window lies inside the work area; on 1920 x 1080 the bounds are
\* {288, 162, 1344, 756}.
C15_CenterSeventyPercent ==
    LET W == workArea.width
        H == workArea.height
        Center(r) ==
            /\ r.width = (7 * W) \div 10
            /\ r.height = (7 * H) \div 10
            /\ r.x = (W - r.width) \div 2
            /\ r.y = (H - r.height) \div 2
            /\ r.x >= 0 /\ r.y >= 0 /\ r.x + r.width <= W /\ r.y + r.height <= H
            /\ (W = 1920 /\ H = 1080) => r = Rect(288, 162, 1344, 756)
    IN  ResolvedAs("center") # {} => \E r \in BoundsGiven : Center(r)

\* C16: 'custom' with any customWidth and customHeight yields width
\* min(customWidth, W) and height min(customHeight, H), centred with
\* x = floor((W - width)/2) and y = floor((H - height)/2); customWidth 3000
\* on a 1920-wide work area gives width 1920 and x = 0.  The invocations
\* read are those given the stored customWidth and customHeight.
C16_CustomClamped ==
    LET W == workArea.width
        H == workArea.height
    IN  \A i \in ResolvedAs("custom") :
            LET cw == opLog[i].arg.customWidth
                ch == opLog[i].arg.customHeight
                Custom(r) ==
                    /\ r.width = Min(cw, W)
                    /\ r.height = Min(ch, H)
                    /\ r.x = (W - r.width) \div 2
                    /\ r.y = (H - r.height) \div 2
                    /\ (cw = 3000 /\ W = 1920) => (r.width = 1920 /\ r.x = 0)
            IN  (cw = opLog[i].st.customWidth /\ ch = opLog[i].st.customHeight)
                => \E r \in BoundsGiven : Custom(r)

\* C17: full-screen and bounded modes exclude each other: a non-fullscreen
\* mode clears the full-screen flag and then sets bounds, 'fullscreen' sets
\* the flag and no bounds, and whatever sizes have been applied, the overlay
\* window is full-screen exactly when the stored size is 'fullscreen'.
C17_FullScreenExclusive ==
    /\ OverlayUsable => (fullScreen <=> currentOverlayState.size = "fullscreen")
    /\ \A j \in EventsOf(opLog, "setBounds") :
           j > 1 /\ opLog[j - 1].ev = "setFullScreen" /\ ~opLog[j - 1].flag
    /\ \A i \in EventsOf(opLog, "resolve") :
           IF opLog[i].arg.size = "fullscreen"
           THEN /\ BoundsSet = {}
                /\ i < Len(opLog)
                /\ opLog[i + 1].ev = "setFullScreen" /\ opLog[i + 1].flag
                /\ \A j \in EventsOf(opLog, "setFullScreen") : j = i + 1
           ELSE /\ Cardinality(EventsOf(opLog, "setBounds")) = 1
                /\ \A j \in EventsOf(opLog, "setFullScreen") : ~opLog[j].flag

\* An update returned the window to full-screen after a bounded mode had
\* given it bounds.
C17_Witness ==
    /\ op = "update-overlay"
    /\ ResolvedAs("fullscreen") # {}
    /\ fullScreen
    /\ bounds # <<>>

\* C18: on every snapshot the Overlay Surface paints opacity 0 when the
\* snapshot's isActive is false and the snapshot's opacity otherwise; neither
\* the rendering of a snapshot nor a toggle changes the stored opacity.
C18_InactivePaintsTransparent ==
    /\ [](/\ surface # <<>> =>
                painted.opacity = IF surface[1].isActive THEN surface[1].opacity ELSE 0
          /\ \A i \in EventsOf(opLog, "send") :
                 opLog[i].st.opacity = opLog[i].before.opacity)
    /\ [][op' = "toggleOverlay" =>
              /\ currentOverlayState'.opacity = currentOverlayState.opacity
              /\ store'.opacity = store.opacity]_vars

\* An inactive snapshot with a stored opacity of 0.8 has been painted.
C18_Witness ==
    /\ surface # <<>>
    /\ ~surface[1].isActive
    /\ surface[1].opacity = 80
    /\ painted.opacity = 0
    /\ currentOverlayState.opacity = 80
    /\ store.opacity = 80

C20_BorderLayers ==
    (surface # <<>> /\ surface[1].readingGuideEnabled) =>
        LET bw == surface[1].readingGuideBorderWidth
            bc == surface[1].readingGuideBorderColor
        IN  /\ surface[1].readingGuideBorderStyle = "single" =>
                painted.boxShadow = <<Layer(-bw, bc)>>
            /\ surface[1].readingGuideBorderStyle = "double" =>
                painted.boxShadow = <<Layer(-bw, bc), Layer(bw, bc)>>

\* C21: reloading after any sequence of mutations yields the last in-memory
\* state on every field, and on first run, with an empty store, the loaded
\* state is the defaults for all 13 fields.
C21_ReloadRoundTrip ==
    /\ currentOverlayState = Defaults
    /\ DOMAIN currentOverlayState = Fields
    /\ Cardinality(Fields) = 13
    /\ [][(phase = "exited" /\ phase' = "loaded") =>
              /\ DOMAIN currentOverlayState' = Fields
              /\ \A f \in Fields : currentOverlayState'[f] = currentOverlayState[f]]_vars

\* The process was restarted after the state had been changed, and holds the
\* changed state.
C21_Witness ==
    /\ phase = "loaded"
    /\ op = "load"
    /\ currentOverlayState.color # Defaults.color
    /\ ~currentOverlayState.isActive
    /\ currentOverlayState.readingGuideEnabled

\* C23: the three global hotkeys are bound once the process is ready and none
\* is bound once will-quit has been handled, so that no toggle or nudge
\* changes the state afterwards.
C23_HotkeysBoundThenReleased ==
    /\ [](phase = "running" => (hotkeys = Shortcuts /\ Cardinality(hotkeys) = 3))
    /\ [](phase = "exited" => hotkeys = {})
    /\ [][phase = "exited" =>
              /\ op' \notin {"toggleOverlay"} \cup NudgeOps
              /\ currentOverlayState' = currentOverlayState
              /\ store' = store]_vars

\* The process has quit after the overlay had been switched on by hotkey.
C23_Witness ==
    /\ phase = "exited"
    /\ op = "will-quit"
    /\ hotkeys = {}
    /\ currentOverlayState.isActive

\* C25: after an update-overlay handled while the overlay window exists, the
\* window's geometry is what the resolver yields for the stored size,
\* customWidth and customHeight on the work area: applying the resolver to
\* the stored values would change nothing.
C25_GeometryFollowsStoredSize ==
    (op = "update-overlay" /\ OverlayUsable) =>
        LET geom == [fullScreen |-> fullScreen, bounds |-> bounds]
        IN  applyOverlaySize(geom, currentOverlayState.size,
                             currentOverlayState.customWidth,
                             currentOverlayState.customHeight) = geom

\* C26: whatever size mode and customWidth / customHeight update-overlay
\* stores, the bounds the resolver applies have x, y, width and height all
\* non-negative.
C26_BoundsNonNegative ==
    /\ \A r \in BoundsSet : r.x >= 0 /\ r.y >= 0 /\ r.width >= 0 /\ r.height >= 0
    /\ bounds # <<>> => (/\ bounds[1].x >= 0 /\ bounds[1].y >= 0
                         /\ bounds[1].width >= 0 /\ bounds[1].height >= 0)

\* C27: whenever the overlay window is visible between operations, the last
\* snapshot sent to the Overlay Surface equals the current OverlayState on
\* every field.
C27_VisibleSurfaceIsCurrent ==
    visible => (/\ surface # <<>>
                /\ \A f \in Fields : surface[1][f] = currentOverlayState[f])

\* A nudge has moved the guide of the visible overlay.
C27_Witness ==
    /\ visible
    /\ op \in NudgeOps
    /\ opLog # <<>>
    /\ currentOverlayState.readingGuidePosition # Defaults.readingGuidePosition
    /\ surface = <<currentOverlayState>>

\* C30: a toggle changes no field other than isActive and a nudge no field
\* other than readingGuidePosition; neither changes the overlay window's
\* geometry.
C30_ToggleAndNudgeFrame ==
    [][/\ op' = "toggleOverlay" =>
              /\ \A f \in Fields \ {"isActive"} :
                     currentOverlayState'[f] = currentOverlayState[f]
              /\ fullScreen' = fullScreen /\ bounds' = bounds
       /\ op' \in NudgeOps =>
              /\ \A f \in Fields \ {"readingGuidePosition"} :
                     currentOverlayState'[f] = currentOverlayState[f]
              /\ fullScreen' = fullScreen /\ bounds' = bounds]_vars

\* A toggle was made with the guide away from the middle and the window in a
\* bounded mode.
C30_Witness ==
    /\ op = "toggleOverlay"
    /\ opLog # <<>>
    /\ currentOverlayState.readingGuidePosition # Defaults.readingGuidePosition
    /\ bounds # <<>>
    /\ ~fullScreen

\* C22: where closing all windows quits the process (not macOS), once the
\* control window has been closed the process eventually quits although the
\* overlay window still exists; on macOS closing windows never ends the
\* process.
C22_ControlClosedLeadsToQuit ==
    /\ (phase = "running" /\ mainWindow = "closed" /\ ~isMac) ~> (phase = "exited")
    /\ [][(isMac /\ phase = "running" /\ phase' = "exited") => op' = "will-quit"]_vars

\* C24: load-saved-state is pushed to the Control Surface exactly once per
\* process run, once the control view has finished loading, and carries the
\* OverlayState of that moment.
C24_LoadPushedOncePerRun ==
    /\ loadPushes <= 1
    /\ mainPage = "loaded" => loadPushes = 1
    /\ loadPushes >= 1 => loadPushed # <<>>
    /\ op = "did-finish-load" => loadPushed = <<currentOverlayState>>

\* No message is in flight between the mounted Control Surface and the
\* running main process.
Quiescent == phase = "running" /\ ui # <<>> /\ toMain = <<>> /\ toUI = <<>>

\* C28: with update-overlay and overlay-toggled travelling asynchronously,
\* each in FIFO order, any interleaving of hotkey toggles and Control Surface
\* changes converges: once no message is in flight, the Control Surface's
\* isActive, the main process's isActive and the overlay window's visibility
\* are equal.
C28_ConvergesWhenQuiescent ==
    Quiescent => (/\ ui[1].st.isActive = currentOverlayState.isActive
                  /\ currentOverlayState.isActive = visible)

\* C29: every update-overlay the Control Surface sends carries
\* readingGuidePosition 50, so after the main process has handled one the
\* stored position is 50, whatever the nudges had made it.
C29_ControlUpdateResetsPosition ==
    /\ \A i \in 1..Len(toMain) :
           /\ "readingGuidePosition" \in DOMAIN toMain[i]
           /\ toMain[i].readingGuidePosition = 100
    /\ op = "update-overlay" =>
           /\ currentOverlayState.readingGuidePosition = 100
           /\ store.readingGuidePosition = 100

\* The main process has handled the update the Control Surface sent in
\* answer to overlay-toggled, after a nudge had moved the guide.
C29_Witness ==
    /\ op = "update-overlay"
    /\ opLog[1].before.readingGuidePosition # 100
    /\ currentOverlayState.readingGuidePosition = 100
    /\ toggleRun = 0
    /\ ~currentOverlayState.isActive

\* The kinds of effect the last operation performed.
EffectKinds == {opLog[i].ev : i \in 1..Len(opLog)}

\* C31: no operation raises an error in any reachable state.  With the
\* overlay window absent or destroyed, update-overlay still merges and
\* persists the state and skips the geometry, the broadcast and the
\* visibility change; toggle and the nudges complete without an error.
C31_NoOperationRaises ==
    /\ "throw" \notin EffectKinds
    /\ (op = "update-overlay" /\ ~OverlayUsable) =>
           /\ EffectKinds = {"set", "persist"}
           /\ store = currentOverlayState
    /\ (op \in NudgeOps /\ ~OverlayUsable) =>
           EffectKinds \subseteq {"set", "persist"}

\* The calls of on for the channel and the callback among the first k - 1
\* entries of bridgeLog.
OnCalls(channel, cb, k) ==
    {i \in 1..(k - 1) : /\ bridgeLog[i].call = "on"
                        /\ bridgeLog[i].channel = channel
                        /\ bridgeLog[i].f = Fn(cb)}

\* The calls of removeListener for the channel and the callback between
\* entries i and k of bridgeLog.
RemoveCalls(channel, cb, i, k) ==
    {j \in (i + 1)..(k - 1) : /\ bridgeLog[j].call = "removeListener"
                              /\ bridgeLog[j].channel = channel
                              /\ bridgeLog[j].f = Fn(cb)}

\* C32: after on(channel, cb) followed by removeListener(channel, cb) on an
\* allowed channel, a later message on that channel does not invoke cb; on
\* and removeListener leave every other channel without a listener.
C32_RemovedListenerNotInvoked ==
    /\ \A k \in 1..Len(bridgeLog), channel \in ValidChannels, cb \in Callbacks :
           (/\ bridgeLog[k].call = "message"
            /\ bridgeLog[k].channel = channel
            /\ \E i \in OnCalls(channel, cb, k) :
                   /\ OnCalls(channel, cb, k) = {i}
                   /\ RemoveCalls(channel, cb, i, k) # {})
           => \A n \in 1..Len(bridgeLog[k].invoked) : bridgeLog[k].invoked[n] # cb
    /\ \A channel \in Channels \ ValidChannels : listeners[channel] = <<>>

====
